---- MODULE Spec2Model ----
(***************************************************************************)
(* Model of the NAFA audit sync worker (src/src/index.js): one fetch       *)
(* handler invocation per incoming notification, the outbound calls it     *)
(* issues to Monday.com, Close CRM, S3 and R2, and the state those calls   *)
(* leave in the CRM record and the R2 bucket.                              *)
(*                                                                         *)
(* An invocation runs from one await to the next as one action: the code   *)
(* between two outbound calls is single-threaded JavaScript, so two        *)
(* invocations interleave only where a call is awaited.                    *)
(***************************************************************************)
EXTENDS Integers, Sequences, FiniteSets, TLC

VARIABLES
    request,      \* per invocation: the incoming HTTP request (method, decoded body)
    pc,           \* per invocation: the await the handler is suspended at
    itemId,       \* per invocation: `itemId` of fetch (index.js:43)
    data,         \* per invocation: the item the metadata query returned (index.js:197)
    itemData,     \* per invocation: result of getMondayItemData (index.js:77)
    assetIdx,     \* per invocation: position of the for-of loop (index.js:96)
    fileData,     \* per invocation: `fileData` (index.js:99)
    initData,     \* per invocation: `initData` of uploadFileToClose (index.js:265)
    closeFileUrl, \* per invocation: `closeFileUrl` (index.js:108)
    r2PublicUrl,  \* per invocation: `r2PublicUrl` (index.js:115)
    response,     \* per invocation: the Response returned, <<>> while running
    calls,        \* per invocation: the outbound calls issued so far, in order
    monday,       \* Monday.com: the item the notification is about (<<>> if none)
    closeFiles,   \* Close CRM: files whose upload was initialized
    closeField,   \* Close CRM: custom field value per lead
    closeNotes,   \* Close CRM: notes created, in creation order
    closePuts,    \* Close CRM: lead-field PUTs executed, in execution order
    r2Bucket      \* R2: objects stored

vars == <<request, pc, itemId, data, itemData, assetIdx, fileData, initData,
          closeFileUrl, r2PublicUrl, response, calls, monday, closeFiles,
          closeField, closeNotes, closePuts, r2Bucket>>

localVars == <<itemId, data, itemData, assetIdx, fileData, initData,
               closeFileUrl, r2PublicUrl>>

worldVars == <<monday, closeFiles, closeField, closeNotes, closePuts, r2Bucket>>

(***************************************************************************)
(* Bounds of the model.                                                    *)
(***************************************************************************)
\* Longest asset list Monday.com returns for the item.
MaxAssets == 3

(***************************************************************************)
(* JavaScript values.  A value is a record [t, v]: t its type, v its       *)
(* payload as a string.  Strings the code takes apart (file names, the     *)
(* lead id text) are sequences of one-character strings instead.           *)
(***************************************************************************)
Undefined == [t |-> "undefined", v |-> ""]
JNull == [t |-> "null", v |-> ""]
JStr(s) == [t |-> "string", v |-> s]
JNum(s) == [t |-> "number", v |-> s]
JFalse == [t |-> "boolean", v |-> "false"]

\* ToBoolean: undefined, null, false, 0 and "" are falsy (the tests at
\* index.js:36, 49, 54, 62, 69).
Truthy(x) ==
    /\ x.t \notin {"undefined", "null"}
    /\ ~(x.t = "boolean" /\ x.v = "false")
    /\ ~(x.t = "number" /\ x.v = "0")
    /\ ~(x.t = "string" /\ x.v = "")

\* a || b
JsOr(a, b) == IF Truthy(a) THEN a ELSE b

\* String(x) and `${x}` for the identifiers the code interpolates.
JsString(x) == x.v

\* The same for the values whose payload is a sequence of characters.
TextTruthy(x) == x.t = "string" /\ x.v # <<>>
TextNull == [t |-> "null", v |-> <<>>]
TextUndefined == [t |-> "undefined", v |-> <<>>]
JText(q) == [t |-> "string", v |-> q]
TextOr(a, b) == IF TextTruthy(a) THEN a ELSE b

(***************************************************************************)
(* Environment bindings of the worker.                                     *)
(***************************************************************************)
NAFA_FILE_COLUMN_ID == "files_nafa"
CLOSE_LEAD_ID_COLUMN_ID == "text_lead"
CLOSE_NAFA_URL_FIELD_ID == "cf_nafa"
R2_PUBLIC_URL == "https://r2.example"

(***************************************************************************)
(* Incoming requests.                                                      *)
(***************************************************************************)
\* An object holding itemId and pulseId (inputFields, inboundFieldValues).
FieldObjects == [itemId : {Undefined, JNum("123")}, pulseId : {Undefined, JStr("456")}]

\* A property holding an object is <<>> when absent, <<obj>> when present.
Optional(S) == {<<>>} \cup {<<x>> : x \in S}

Events ==
    [columnId : {Undefined, JStr(""), JStr(NAFA_FILE_COLUMN_ID), JStr("status")},
     value : {Undefined, JStr("{}"), JStr("{\"files\":[]}"), JStr("{\"files\":[{\"assetId\":7}]}")},
     pulseId : {Undefined, JNum("123")},
     itemId : {Undefined, JStr("456")}]

Payloads ==
    [inputFields : Optional({f \in FieldObjects : f.itemId = Undefined \/ f.pulseId = Undefined}),
     inboundFieldValues : Optional({f \in FieldObjects : f.itemId = Undefined \/ f.pulseId = Undefined}),
     itemId : {Undefined, JStr("456")}]

Challenges == {Undefined, JStr(""), JFalse, JStr("tok-1")}

Bodies ==
    [challenge : Challenges,
     event : Optional(Events),
     payload : Optional(Payloads),
     itemId : {Undefined, JNum("123")},
     pulseId : {Undefined, JStr("456")}]

\* The bare-field form only.
BareBodies ==
    {b \in Bodies : b.challenge = Undefined /\ b.event = <<>> /\ b.payload = <<>>}

EmptyBody == CHOOSE b \in BareBodies : b.itemId = Undefined /\ b.pulseId = Undefined

\* parse: what request.json() does with the body text.
\*   "object"    a JSON object, decoded as `body`
\*   "null"      the JSON text null
\*   "malformed" not JSON: request.json() rejects
RequestsOf(B) ==
    [method : {"POST"}, parse : {"object"}, body : B]
        \cup [method : {"GET"}, parse : {"object"}, body : {EmptyBody}]
        \cup [method : {"POST"}, parse : {"null", "malformed"}, body : {EmptyBody}]

(***************************************************************************)
(* Responses.                                                              *)
(***************************************************************************)
TextResponse(status, text) ==
    [status |-> status, contentType |-> "text/plain", text |-> text, challenge |-> Undefined]

\* ChallengeResponse answering with a token of its own.
ChallengeResponseFixed(x) ==
    [status |-> 200, contentType |-> "application/json", text |-> "",
     challenge |-> JStr("challenge")]

\* new Response(JSON.stringify({ challenge: body.challenge }), ...): status
\* defaults to 200.
ChallengeResponse(x) ==
    [status |-> 200, contentType |-> "application/json", text |-> "", challenge |-> x]

(***************************************************************************)
(* Payload normalisation (index.js:42-67).  The result says how the        *)
(* handler leaves the block: with an early response or with itemId set.    *)
(***************************************************************************)
EventItemId(event) == JsOr(event.pulseId, event.itemId)

PayloadFields(payload) ==
    IF payload.inputFields # <<>> THEN payload.inputFields[1]
    ELSE IF payload.inboundFieldValues # <<>> THEN payload.inboundFieldValues[1]
    ELSE [itemId |-> Undefined, pulseId |-> Undefined]

PayloadItemId(payload) ==
    LET fields == PayloadFields(payload)
        id == JsOr(fields.itemId, fields.pulseId)
    IN  IF ~Truthy(id) /\ Truthy(payload.itemId) THEN payload.itemId ELSE id

\* WrongColumn with the comparison turned round.
WrongColumnInverted(event) ==
    Truthy(event.columnId) /\ event.columnId = JStr(NAFA_FILE_COLUMN_ID)

WrongColumn(event) ==
    Truthy(event.columnId) /\ event.columnId # JStr(NAFA_FILE_COLUMN_ID)

\* FileRemoved knowing the empty object only.
FileRemovedEmptyObjectOnly(event) ==
    Truthy(event.value) /\ event.value = JStr("{}")

FileRemoved(event) ==
    Truthy(event.value)
        /\ (event.value = JStr("{}") \/ event.value = JStr("{\"files\":[]}"))

ExtractItemId(body) ==
    IF body.event # <<>> THEN
        LET event == body.event[1] IN
        IF WrongColumn(event) THEN [exit |-> "column", itemId |-> JNull]
        ELSE IF FileRemoved(event) THEN [exit |-> "removed", itemId |-> JNull]
        ELSE [exit |-> "none", itemId |-> EventItemId(event)]
    ELSE IF body.payload # <<>> THEN
        [exit |-> "none", itemId |-> PayloadItemId(body.payload[1])]
    ELSE [exit |-> "none", itemId |-> JsOr(body.itemId, body.pulseId)]

(***************************************************************************)
(* Strings as sequences of characters.                                     *)
(***************************************************************************)
RECURSIVE TrimStart(_)
TrimStart(q) ==
    IF q # <<>> /\ Head(q) = " " THEN TrimStart(Tail(q)) ELSE q

RECURSIVE TrimEnd(_)
TrimEnd(q) ==
    IF q # <<>> /\ q[Len(q)] = " " THEN TrimEnd(SubSeq(q, 1, Len(q) - 1)) ELSE q

\* String.prototype.trim
Trim(q) == TrimEnd(TrimStart(q))

(***************************************************************************)
(* Monday.com: the item, its lead id column and its file assets.           *)
(***************************************************************************)
\* The files that can be attached to the item.  created_at is the instant
\* `new Date(created_at)` yields; two of the files share one, and one of
\* the two has no public URL.
AssetPool ==
    <<[id |-> "a1", name |-> <<"a", " ", "b", ".", "p", "d", "f">>,
       public_url |-> JStr("https://files.monday/a1"), created_at |-> 1],
      [id |-> "a2", name |-> <<"r", ".", "P", "D", "F">>,
       public_url |-> JStr("https://files.monday/a2"), created_at |-> 2],
      [id |-> "a3", name |-> <<"n", "o", "t", "e", "s">>,
       public_url |-> JNull, created_at |-> 2],
      [id |-> "a4", name |-> <<"x", ".", "c", "s", "v">>,
       public_url |-> JStr("https://files.monday/a4"), created_at |-> 3]>>

Range(f) == {f[x] : x \in DOMAIN f}

\* Asset lists in any order the platform may return them, without repeats.
AssetLists ==
    {s \in UNION {[1..n -> Range(AssetPool)] : n \in 0..MaxAssets} :
        \A j, k \in DOMAIN s : j # k => s[j] # s[k]}

LeadTexts ==
    {TextNull, JText(<<>>), JText(<<" ">>), JText(<<"L", "1">>),
     JText(<<" ", "L", "1", " ">>)}

LeadDisplayValues == {TextUndefined, JText(<<" ">>), JText(<<"L", "2">>)}

LeadColumns == [text : LeadTexts, display_value : LeadDisplayValues]

Items ==
    [name : {"Acme Ltd"}, column_values : Optional(LeadColumns), assets : AssetLists]

\* The leads of the CRM the column can name.
Leads == {<<"L", "1">>, <<"L", "2">>}

(***************************************************************************)
(* getMondayItemData (index.js:151-215), from the decoded response on.     *)
(***************************************************************************)
\* Array.prototype.sort with (a, b) => new Date(b.created_at) - new Date(a.created_at):
\* a stable sort, newest first.  Insert puts x behind every element that is
\* not older than x.
RECURSIVE Insert(_, _)
Insert(x, s) ==
    IF s = <<>> THEN <<x>>
    ELSE IF Head(s).created_at >= x.created_at THEN <<Head(s)>> \o Insert(x, Tail(s))
    ELSE <<x>> \o s

RECURSIVE SortByCreatedAtDesc(_)
SortByCreatedAtDesc(s) ==
    IF s = <<>> THEN <<>>
    ELSE Insert(s[Len(s)], SortByCreatedAtDesc(SubSeq(s, 1, Len(s) - 1)))

\* LatestAsset without the sort.
LatestAssetUnsorted(assets) ==
    IF Len(assets) > 0 THEN <<assets[1]>> ELSE <<>>

\* index.js:205-208
LatestAsset(assets) ==
    LET allAssets == SortByCreatedAtDesc(assets)
    IN  IF Len(allAssets) > 0 THEN <<allAssets[1]>> ELSE <<>>

\* index.js:200-203
RawLeadId(item) ==
    IF item.column_values = <<>> THEN TextNull
    ELSE LET col == item.column_values[1]
         IN  TextOr(TextOr(col.text, col.display_value), TextNull)

\* CloseLeadId without the trim.
CloseLeadIdUntrimmed(item) == TextOr(RawLeadId(item), TextNull)

\* index.js:212: rawLeadId?.trim() || null
CloseLeadId(item) ==
    LET raw == RawLeadId(item)
    IN  IF raw.t = "string" THEN TextOr(JText(Trim(raw.v)), TextNull) ELSE TextNull

\* GetMondayItemData without the null return for a missing item.
GetMondayItemDataNoItemCheck(items) ==
    IF items = <<>>
    THEN <<[name |-> "", closeLeadId |-> TextNull, assets |-> <<>>]>>
    ELSE <<[name |-> items[1].name,
            closeLeadId |-> CloseLeadId(items[1]),
            assets |-> LatestAsset(items[1].assets)]>>

\* index.js:197-214: <<>> is the null result.
GetMondayItemData(items) ==
    IF items = <<>> THEN <<>>
    ELSE LET item == items[1]
         IN  <<[name |-> item.name,
                closeLeadId |-> CloseLeadId(item),
                assets |-> LatestAsset(item.assets)]>>

(***************************************************************************)
(* getMimeType (index.js:394-412).                                         *)
(***************************************************************************)
\* filename.split('.').pop(): what follows the last dot, the whole name if
\* there is none.
RECURSIVE LastSegment(_)
LastSegment(q) ==
    IF q = <<>> \/ q[Len(q)] = "." THEN <<>>
    ELSE LastSegment(SubSeq(q, 1, Len(q) - 1)) \o <<q[Len(q)]>>

UpperToLower ==
    [c \in {"A", "B", "C", "D", "E", "F", "G", "H", "I", "J", "K", "L", "M",
            "N", "O", "P", "Q", "R", "S", "T", "U", "V", "W", "X", "Y", "Z"} |->
        CASE c = "A" -> "a" [] c = "B" -> "b" [] c = "C" -> "c" [] c = "D" -> "d"
          [] c = "E" -> "e" [] c = "F" -> "f" [] c = "G" -> "g" [] c = "H" -> "h"
          [] c = "I" -> "i" [] c = "J" -> "j" [] c = "K" -> "k" [] c = "L" -> "l"
          [] c = "M" -> "m" [] c = "N" -> "n" [] c = "O" -> "o" [] c = "P" -> "p"
          [] c = "Q" -> "q" [] c = "R" -> "r" [] c = "S" -> "s" [] c = "T" -> "t"
          [] c = "U" -> "u" [] c = "V" -> "v" [] c = "W" -> "w" [] c = "X" -> "x"
          [] c = "Y" -> "y" [] c = "Z" -> "z"]

\* String.prototype.toLowerCase
ToLowerCase(q) ==
    [k \in DOMAIN q |-> IF q[k] \in DOMAIN UpperToLower THEN UpperToLower[q[k]] ELSE q[k]]

\* index.js:396-410
mimeTypes ==
    [ext \in {<<"p", "d", "f">>, <<"p", "n", "g">>, <<"j", "p", "g">>,
              <<"j", "p", "e", "g">>, <<"g", "i", "f">>, <<"d", "o", "c">>,
              <<"d", "o", "c", "x">>, <<"x", "l", "s">>, <<"x", "l", "s", "x">>,
              <<"c", "s", "v">>, <<"t", "x", "t">>, <<"h", "t", "m", "l">>,
              <<"z", "i", "p">>} |->
        CASE ext = <<"p", "d", "f">> -> "application/pdf"
          [] ext = <<"p", "n", "g">> -> "image/png"
          [] ext = <<"j", "p", "g">> -> "image/jpeg"
          [] ext = <<"j", "p", "e", "g">> -> "image/jpeg"
          [] ext = <<"g", "i", "f">> -> "image/gif"
          [] ext = <<"d", "o", "c">> -> "application/msword"
          [] ext = <<"d", "o", "c", "x">> ->
                "application/vnd.openxmlformats-officedocument.wordprocessingml.document"
          [] ext = <<"x", "l", "s">> -> "application/vnd.ms-excel"
          [] ext = <<"x", "l", "s", "x">> ->
                "application/vnd.openxmlformats-officedocument.spreadsheetml.sheet"
          [] ext = <<"c", "s", "v">> -> "text/csv"
          [] ext = <<"t", "x", "t">> -> "text/plain"
          [] ext = <<"h", "t", "m", "l">> -> "text/html"
          [] ext = <<"z", "i", "p">> -> "application/zip"]

\* The lower-case names mimeTypes inherits from Object.prototype: the
\* look-up mimeTypes[ext] finds them too, and what it finds is truthy.
InheritedKeys ==
    {<<"c", "o", "n", "s", "t", "r", "u", "c", "t", "o", "r">>,
     <<"_", "_", "p", "r", "o", "t", "o", "_", "_">>}

\* What the look-up of an inherited name yields: no MIME type string.
InheritedMember == "[Object.prototype member]"

\* index.js:395 and 411
getMimeType(filename) ==
    LET ext == ToLowerCase(LastSegment(filename))
    IN  IF ext \in DOMAIN mimeTypes THEN mimeTypes[ext]
        ELSE IF ext \in InheritedKeys THEN InheritedMember
        ELSE "application/octet-stream"

(***************************************************************************)
(* uploadFileToR2 (index.js:374-389): the key and the public URL, as       *)
(* sequences of the pieces the template strings join.                      *)
(***************************************************************************)
\* encodeURIComponent leaving every character as it is.
encodeURIComponentIdentity(q) == q

\* encodeURIComponent leaves A-Z a-z 0-9 - _ . ! ~ * ' ( ) alone and
\* percent-encodes the rest; of the characters file names are made of here
\* that is the space and the slash.
EncodeChar(c) ==
    CASE c = " " -> <<"%", "2", "0">>
      [] c = "/" -> <<"%", "2", "F">>
      [] OTHER -> <<c>>

RECURSIVE encodeURIComponent(_)
encodeURIComponent(q) ==
    IF q = <<>> THEN <<>> ELSE EncodeChar(Head(q)) \o encodeURIComponent(Tail(q))

\* index.js:376
R2Key(id, filename) == <<JsString(id), "/">> \o filename

\* index.js:381-382
R2PublicUrl(id, filename) ==
    <<R2_PUBLIC_URL, "/", JsString(id), "/">> \o encodeURIComponent(filename)

(***************************************************************************)
(* Outbound calls.  Each invocation logs the calls it issues; `result` is  *)
(* "pending" until the awaited call settles.                               *)
(***************************************************************************)
MetadataCall(id) ==
    [kind |-> "metadata", result |-> "pending", itemId |-> JsString(id)]

DownloadCall(asset) ==
    [kind |-> "download", result |-> "pending", asset |-> asset.id,
     url |-> asset.public_url]

InitCall(asset) ==
    [kind |-> "init", result |-> "pending", asset |-> asset.id,
     filename |-> asset.name, content_type |-> getMimeType(asset.name)]

DepositCall(asset, file) ==
    [kind |-> "deposit", result |-> "pending", asset |-> asset.id, file |-> file]

R2PutCall(asset, id) ==
    [kind |-> "r2put", result |-> "pending", asset |-> asset.id,
     key |-> R2Key(id, asset.name), contentType |-> getMimeType(asset.name)]

\* FieldPutCall that keeps a value the field already holds.
FieldPutCallKeepExisting(asset, leadId, r2Url) ==
    [kind |-> "fieldput", result |-> "pending", asset |-> asset.id,
     lead |-> leadId, field |-> CLOSE_NAFA_URL_FIELD_ID,
     value |-> IF closeField[leadId] # <<>> THEN closeField[leadId] ELSE r2Url]

\* FieldPutCall that adds the URL to the value the field already holds.
FieldPutCallAppending(asset, leadId, r2Url) ==
    [kind |-> "fieldput", result |-> "pending", asset |-> asset.id,
     lead |-> leadId, field |-> CLOSE_NAFA_URL_FIELD_ID,
     value |-> closeField[leadId] \o r2Url]

\* index.js:342-351: PUT /lead/<leadId>/ with { custom.<field>: r2Url }
FieldPutCall(asset, leadId, r2Url) ==
    [kind |-> "fieldput", result |-> "pending", asset |-> asset.id,
     lead |-> leadId, field |-> CLOSE_NAFA_URL_FIELD_ID, value |-> r2Url]

\* index.js:305-324: POST /activity/note/ with the note body
NoteCall(asset, leadId, fileUrl, itemName) ==
    [kind |-> "note", result |-> "pending", asset |-> asset.id,
     lead_id |-> leadId, itemName |-> itemName,
     attachment |-> [url |-> fileUrl, filename |-> asset.name,
                     content_type |-> getMimeType(asset.name)]]

\* The log once the call awaited has settled with result r.
Settled(cs, r) == [cs EXCEPT ![Len(cs)].result = r]

CallsOfKind(cs, kinds) == {k \in DOMAIN cs : cs[k].kind \in kinds}

(***************************************************************************)
(* The handler (index.js:26-139).                                          *)
(***************************************************************************)
Invocations == DOMAIN pc

\* `body` is not read after index.js:67; the model forgets it there.
BodyDropped == [method |-> "POST", parse |-> "dropped", body |-> EmptyBody]

\* return new Response(...)
Return(i, resp, cs) ==
    /\ pc' = [pc EXCEPT ![i] = "done"]
    /\ response' = [response EXCEPT ![i] = <<resp>>]
    /\ calls' = [calls EXCEPT ![i] = cs]

\* Caught answering with an empty body.
CaughtEmptyBody(i, cs) == Return(i, TextResponse(500, ""), cs)

\* The catch of index.js:135-138.
Caught(i, cs) == Return(i, TextResponse(500, "Internal error"), cs)

\* FetchFailedResponse with a success status.
FetchFailedResponseOk == TextResponse(200, "Failed to fetch item data")

\* index.js:78-81
FetchFailedResponse == TextResponse(500, "Failed to fetch item data")

\* downloadMondayFile returns null without a call when the URL is falsy
\* (index.js:221), and the loop continues: the next asset a download is
\* issued for, Len + 1 when the loop ends.
RECURSIVE NextDownload(_, _)
NextDownload(assets, k) ==
    IF k > Len(assets) \/ Truthy(assets[k].public_url) THEN k
    ELSE NextDownload(assets, k + 1)

\* Loop that downloads an asset once more after its download has failed.
LoopRetrying(i, assets, k, cs) ==
    LET last == cs[Len(cs)]
        again == /\ last.kind = "download"
                 /\ last.result # "ok"
                 /\ Cardinality(CallsOfKind(cs, {"download"})) < 2
        n == IF again THEN k - 1 ELSE NextDownload(assets, k)
    IN
    /\ assetIdx' = [assetIdx EXCEPT ![i] = n]
    /\ IF n > Len(assets)
       THEN Return(i, TextResponse(200, "OK"), cs)
       ELSE /\ pc' = [pc EXCEPT ![i] = "download"]
            /\ calls' = [calls EXCEPT ![i] = Append(cs, DownloadCall(assets[n]))]
            /\ UNCHANGED response

\* The for-of loop of index.js:96 from asset k on, up to its next await.
Loop(i, assets, k, cs) ==
    LET n == NextDownload(assets, k) IN
    /\ assetIdx' = [assetIdx EXCEPT ![i] = n]
    /\ IF n > Len(assets)
       THEN Return(i, TextResponse(200, "OK"), cs)
       ELSE /\ pc' = [pc EXCEPT ![i] = "download"]
            /\ calls' = [calls EXCEPT ![i] = Append(cs, DownloadCall(assets[n]))]
            /\ UNCHANGED response

\* index.js:27-77: up to the metadata query.
Handle(i) ==
    /\ pc[i] = "start"
    /\ LET req == request[i]
           found == ExtractItemId(req.body)
       IN
       IF req.method # "POST" THEN
           /\ Return(i, TextResponse(405, "Method not allowed"), <<>>)
           /\ UNCHANGED <<request, itemId>>
       ELSE IF req.parse # "object" THEN
           \* request.json() rejects, or body.challenge of null throws
           /\ Caught(i, <<>>)
           /\ UNCHANGED <<request, itemId>>
       ELSE IF Truthy(req.body.challenge) THEN
           /\ Return(i, ChallengeResponse(req.body.challenge), <<>>)
           /\ UNCHANGED <<request, itemId>>
       ELSE IF found.exit = "column" THEN
           /\ Return(i, TextResponse(200, "Ignoring non-NAFA column change"), <<>>)
           /\ UNCHANGED <<request, itemId>>
       ELSE IF found.exit = "removed" THEN
           /\ Return(i, TextResponse(200, "File was removed, skipping"), <<>>)
           /\ UNCHANGED <<request, itemId>>
       ELSE IF ~Truthy(found.itemId) THEN
           /\ Return(i, TextResponse(200, "No item ID found in payload"), <<>>)
           /\ UNCHANGED <<request, itemId>>
       ELSE
           /\ itemId' = [itemId EXCEPT ![i] = found.itemId]
           /\ request' = [request EXCEPT ![i] = BodyDropped]
           /\ pc' = [pc EXCEPT ![i] = "meta"]
           /\ calls' = [calls EXCEPT ![i] = <<MetadataCall(found.itemId)>>]
           /\ UNCHANGED response
    /\ UNCHANGED <<data, itemData, assetIdx, fileData, initData, closeFileUrl,
                   r2PublicUrl>>
    /\ UNCHANGED worldVars

\* index.js:77-99: the metadata query settles.
\*   "throw"  fetch or response.json() rejects
\*   "errors" the response carries errors
\*   "data"   the response carries the item, or none
MetaResponse(i) ==
    /\ pc[i] = "meta"
    /\ \E outcome \in {"throw", "errors", "data"} :
         LET result == IF outcome = "data" THEN GetMondayItemData(monday) ELSE <<>>
             cs == Settled(calls[i], IF outcome = "data" THEN "ok" ELSE outcome)
         IN
         /\ data' = [data EXCEPT ![i] = IF outcome = "data" THEN monday ELSE <<>>]
         /\ itemData' = [itemData EXCEPT ![i] = result]
         /\ IF outcome = "throw" THEN
                Caught(i, cs) /\ UNCHANGED assetIdx
            ELSE IF result = <<>> THEN
                /\ Return(i, FetchFailedResponse, cs)
                /\ UNCHANGED assetIdx
            ELSE IF ~TextTruthy(result[1].closeLeadId) THEN
                /\ Return(i, TextResponse(200, "No Close Lead ID on item"), cs)
                /\ UNCHANGED assetIdx
            ELSE IF Len(result[1].assets) = 0 THEN
                /\ Return(i, TextResponse(200, "No file assets found"), cs)
                /\ UNCHANGED assetIdx
            ELSE Loop(i, result[1].assets, 1, cs)
    /\ UNCHANGED <<request, itemId, fileData, initData, closeFileUrl, r2PublicUrl>>
    /\ UNCHANGED worldVars

\* The asset the loop is at.
Asset(i) == itemData[i][1].assets[assetIdx[i]]

\* index.js:99-108 and 220-234: the file download settles.
\*   "ok"     a 2xx response whose bytes are read
\*   "status" a non-2xx response
\*   "throw"  fetch or arrayBuffer() rejects (caught at index.js:230)
DownloadResponse(i) ==
    /\ pc[i] = "download"
    /\ \E outcome \in {"ok", "status", "throw"} :
         LET cs == Settled(calls[i], outcome) IN
         IF outcome = "ok" THEN
             /\ fileData' = [fileData EXCEPT ![i] = <<Asset(i).id>>]
             /\ pc' = [pc EXCEPT ![i] = "init"]
             /\ calls' = [calls EXCEPT ![i] = Append(cs, InitCall(Asset(i)))]
             /\ UNCHANGED <<response, assetIdx>>
         ELSE
             /\ fileData' = [fileData EXCEPT ![i] = <<>>]
             /\ Loop(i, itemData[i][1].assets, assetIdx[i] + 1, cs)
    /\ UNCHANGED <<request, itemId, data, itemData, initData, closeFileUrl, r2PublicUrl>>
    /\ UNCHANGED worldVars

(***************************************************************************)
(* uploadFileToClose (index.js:246-296).                                   *)
(***************************************************************************)
\* What the initialize response can carry: each of the three pieces present
\* or not.
InitBodies == [uploadUrl : BOOLEAN, uploadFields : BOOLEAN, downloadUrl : BOOLEAN]

\* InitComplete that does not ask for the upload form fields.
InitCompleteWithoutFields(body) == body.uploadUrl /\ body.downloadUrl

\* index.js:270
InitComplete(body) == body.uploadUrl /\ body.uploadFields /\ body.downloadUrl

\* The statuses the storage backend answers the deposit with.
DepositStatuses == {200, 201, 204, 403}

\* The status as the log of calls records it.
StatusText(status) ==
    CASE status = 200 -> "200" [] status = 201 -> "201"
      [] status = 204 -> "204" [] status = 403 -> "403"

\* DepositSucceeded taking every answer for a success.
DepositSucceededAlways(status) == TRUE

\* DepositSucceeded taking every 2xx status for a success (response.ok).
DepositSucceededAny2xx(status) == status \in 200..299

\* index.js:288
DepositSucceeded(status) == status = 201 \/ status = 204

\* The file number of the CRM file an initialize call creates.
NewFile == Len(closeFiles) + 1

\* index.js:250-283: the initialize call settles.
\*   "throw"  fetch or initResponse.json() rejects; nothing catches it
\*            before the handler's own catch
\*   "status" a non-2xx response
\*   "ok"     a 2xx response with a JSON body; the CRM has created the file
InitResponse(i) ==
    /\ pc[i] = "init"
    /\ \E outcome \in {"throw", "status", "ok"}, body \in InitBodies :
         LET cs == Settled(calls[i], outcome) IN
         /\ outcome # "ok" => body = [uploadUrl |-> FALSE, uploadFields |-> FALSE,
                                      downloadUrl |-> FALSE]
         /\ IF outcome = "ok"
            THEN /\ closeFiles' = Append(closeFiles,
                        [filename |-> Asset(i).name,
                         content_type |-> getMimeType(Asset(i).name),
                         deposited |-> FALSE])
                 /\ initData' = [initData EXCEPT ![i] =
                        <<[uploadUrl |-> body.uploadUrl,
                           uploadFields |-> body.uploadFields,
                           downloadUrl |-> IF body.downloadUrl THEN <<NewFile>> ELSE <<>>]>>]
            ELSE UNCHANGED <<closeFiles, initData>>
         /\ IF outcome = "throw" THEN
                Caught(i, cs) /\ UNCHANGED assetIdx
            ELSE IF outcome = "ok" /\ InitComplete(body) THEN
                /\ pc' = [pc EXCEPT ![i] = "deposit"]
                /\ calls' = [calls EXCEPT ![i] = Append(cs, DepositCall(Asset(i), NewFile))]
                /\ UNCHANGED <<response, assetIdx>>
            ELSE
                \* uploadFileToClose returns null: index.js:109-112
                Loop(i, itemData[i][1].assets, assetIdx[i] + 1, cs)
    /\ UNCHANGED <<request, itemId, data, itemData, fileData, closeFileUrl, r2PublicUrl>>
    /\ UNCHANGED <<monday, closeField, closeNotes, closePuts, r2Bucket>>

\* index.js:283-296 and 108-115: the deposit settles.
\*   "throw" fetch rejects; nothing catches it before the handler's catch
\*   a status, which the log records as the result of the call: the
\*   backend has stored the file if the status is 2xx
DepositResponse(i) ==
    /\ pc[i] = "deposit"
    /\ \/ /\ Caught(i, Settled(calls[i], "throw"))
          /\ UNCHANGED <<assetIdx, closeFileUrl, closeFiles>>
       \/ \E status \in DepositStatuses :
            LET file == initData[i][1].downloadUrl[1]
                done == DepositSucceeded(status)
                cs == Settled(calls[i], StatusText(status))
            IN
            /\ closeFiles' = IF status \in {200, 201, 204}
                             THEN [closeFiles EXCEPT ![file].deposited = TRUE]
                             ELSE closeFiles
            /\ IF done THEN
                   /\ closeFileUrl' = [closeFileUrl EXCEPT ![i] = <<file>>]
                   /\ pc' = [pc EXCEPT ![i] = "r2put"]
                   /\ calls' = [calls EXCEPT ![i] =
                          Append(cs, R2PutCall(Asset(i), itemId[i]))]
                   /\ UNCHANGED <<response, assetIdx>>
               ELSE
                   /\ closeFileUrl' = [closeFileUrl EXCEPT ![i] = <<>>]
                   /\ Loop(i, itemData[i][1].assets, assetIdx[i] + 1, cs)
    /\ UNCHANGED <<request, itemId, data, itemData, fileData, initData, r2PublicUrl>>
    /\ UNCHANGED <<monday, closeField, closeNotes, closePuts, r2Bucket>>

(***************************************************************************)
(* uploadFileToR2, updateCloseLeadField, createCloseNote and the handler   *)
(* around them (index.js:114-132).                                         *)
(***************************************************************************)
\* UpdatesField without the test.
UpdatesFieldAlways(r2Url) == TRUE

\* index.js:116: if (r2PublicUrl)
UpdatesField(r2Url) == r2Url # <<>>

\* The note call of index.js:123-125.
IssueNote(i, cs) ==
    /\ pc' = [pc EXCEPT ![i] = "note"]
    /\ calls' = [calls EXCEPT ![i] =
           Append(cs, NoteCall(Asset(i), itemData[i][1].closeLeadId.v,
                               closeFileUrl[i], itemData[i][1].name))]
    /\ UNCHANGED <<response, assetIdx>>

\* index.js:374-389 and 116-125: the bucket put settles.
\*   "ok"    the object is stored
\*   "throw" put rejects (caught at index.js:385): the result is null
R2PutResponse(i) ==
    /\ pc[i] = "r2put"
    /\ \E outcome \in {"ok", "throw"} :
         LET cs == Settled(calls[i], outcome)
             key == R2Key(itemId[i], Asset(i).name)
             url == IF outcome = "ok" THEN R2PublicUrl(itemId[i], Asset(i).name) ELSE <<>>
         IN
         /\ r2Bucket' = IF outcome = "ok"
                        THEN {o \in r2Bucket : o.key # key}
                               \cup {[key |-> key,
                                      contentType |-> getMimeType(Asset(i).name),
                                      data |-> fileData[i][1]]}
                        ELSE r2Bucket
         /\ r2PublicUrl' = [r2PublicUrl EXCEPT ![i] = url]
         /\ IF UpdatesField(url) THEN
                /\ pc' = [pc EXCEPT ![i] = "fieldput"]
                /\ calls' = [calls EXCEPT ![i] =
                       Append(cs, FieldPutCall(Asset(i), itemData[i][1].closeLeadId.v, url))]
                /\ UNCHANGED <<response, assetIdx>>
            ELSE IssueNote(i, cs)
    /\ UNCHANGED <<request, itemId, data, itemData, fileData, initData, closeFileUrl>>
    /\ UNCHANGED <<monday, closeFiles, closeField, closeNotes, closePuts>>

\* index.js:338-365 and 123-125: the lead PUT settles.
\*   "ok"     the CRM has set the custom field to the value sent
\*   "status" a non-2xx response
\*   "throw"  fetch rejects (caught at index.js:361)
FieldPutResponse(i) ==
    /\ pc[i] = "fieldput"
    /\ \E outcome \in {"ok", "status", "throw"} :
         LET put == calls[i][Len(calls[i])] IN
         /\ IF outcome = "ok"
            THEN /\ closeField' = [closeField EXCEPT ![put.lead] = put.value]
                 /\ closePuts' = Append(closePuts,
                        [by |-> i, lead |-> put.lead, value |-> put.value])
            ELSE UNCHANGED <<closeField, closePuts>>
         /\ IssueNote(i, Settled(calls[i], outcome))
    /\ UNCHANGED <<request, itemId, data, itemData, fileData, initData, closeFileUrl,
                   r2PublicUrl>>
    /\ UNCHANGED <<monday, closeFiles, closeNotes, r2Bucket>>

\* NoteResponse that, when the note POST fails, deletes the mirror object
\* and clears the custom field.
NoteResponseRollingBack(i) ==
    /\ pc[i] = "note"
    /\ \E outcome \in {"ok", "status", "throw"} :
         LET note == calls[i][Len(calls[i])]
             cs == Settled(calls[i], outcome)
         IN
         /\ closeNotes' = IF outcome = "ok"
                          THEN Append(closeNotes,
                                   [by |-> i, lead_id |-> note.lead_id,
                                    itemName |-> note.itemName,
                                    attachment |-> note.attachment])
                          ELSE closeNotes
         /\ r2Bucket' = IF outcome = "ok" THEN r2Bucket ELSE {}
         /\ closeField' = IF outcome = "ok" THEN closeField
                          ELSE [closeField EXCEPT ![note.lead_id] = <<>>]
         /\ IF outcome = "throw"
            THEN Caught(i, cs) /\ UNCHANGED assetIdx
            ELSE Loop(i, itemData[i][1].assets, assetIdx[i] + 1, cs)
    /\ UNCHANGED <<request, itemId, data, itemData, fileData, initData, closeFileUrl,
                   r2PublicUrl>>
    /\ UNCHANGED <<monday, closeFiles, closePuts>>

\* index.js:317-333 and 127-134: the note POST settles.
\*   "ok"     the CRM has created the note
\*   "status" a non-2xx response
\*   "throw"  fetch rejects; nothing catches it before the handler's catch
NoteResponse(i) ==
    /\ pc[i] = "note"
    /\ \E outcome \in {"ok", "status", "throw"} :
         LET note == calls[i][Len(calls[i])]
             cs == Settled(calls[i], outcome)
         IN
         /\ closeNotes' = IF outcome = "ok"
                          THEN Append(closeNotes,
                                   [by |-> i, lead_id |-> note.lead_id,
                                    itemName |-> note.itemName,
                                    attachment |-> note.attachment])
                          ELSE closeNotes
         /\ IF outcome = "throw"
            THEN Caught(i, cs) /\ UNCHANGED assetIdx
            ELSE Loop(i, itemData[i][1].assets, assetIdx[i] + 1, cs)
    /\ UNCHANGED <<request, itemId, data, itemData, fileData, initData, closeFileUrl,
                   r2PublicUrl>>
    /\ UNCHANGED <<monday, closeFiles, closeField, closePuts, r2Bucket>>

(***************************************************************************)
(* The platform: a further file is attached to the item while a            *)
(* notification is still waiting for the item's metadata.                  *)
(***************************************************************************)
AddAsset ==
    /\ monday # <<>>
    /\ Len(monday[1].assets) < MaxAssets
    /\ \E i \in Invocations : pc[i] \in {"start", "meta"}
    /\ \E a \in Range(AssetPool) :
         /\ \A k \in DOMAIN monday[1].assets :
              /\ monday[1].assets[k] # a
              /\ monday[1].assets[k].created_at <= a.created_at
         /\ monday' = <<[monday[1] EXCEPT !.assets = Append(@, a)]>>
    /\ UNCHANGED <<request, pc, response, calls>>
    /\ UNCHANGED localVars
    /\ UNCHANGED <<closeFiles, closeField, closeNotes, closePuts, r2Bucket>>

(***************************************************************************)
(* Specifications.                                                         *)
(***************************************************************************)
\* The state of the invocations in I before any has run.
Fresh(I) ==
    /\ pc = [i \in I |-> "start"]
    /\ itemId = [i \in I |-> JNull]
    /\ data = [i \in I |-> <<>>]
    /\ itemData = [i \in I |-> <<>>]
    /\ assetIdx = [i \in I |-> 0]
    /\ fileData = [i \in I |-> <<>>]
    /\ initData = [i \in I |-> <<>>]
    /\ closeFileUrl = [i \in I |-> <<>>]
    /\ r2PublicUrl = [i \in I |-> <<>>]
    /\ response = [i \in I |-> <<>>]
    /\ calls = [i \in I |-> <<>>]
    /\ closeFiles = <<>>
    /\ closeField = [l \in Leads |-> <<>>]
    /\ closeNotes = <<>>
    /\ closePuts = <<>>
    /\ r2Bucket = {}

Post(body) == [method |-> "POST", parse |-> "object", body |-> body]

ItemNotification == Post([EmptyBody EXCEPT !.itemId = JNum("123")])

\* An item with a lead id and one file.
PlainItem ==
    [name |-> "Acme Ltd",
     column_values |-> <<[text |-> JText(<<"L", "1">>), display_value |-> TextUndefined]>>,
     assets |-> <<AssetPool[1]>>]

\* One invocation: any request about a plain item, or a plain notification
\* about any item.
Init ==
    /\ Fresh({1})
    /\ \/ /\ request \in [{1} -> RequestsOf(Bodies)]
          /\ monday = <<PlainItem>>
       \/ /\ request = [i \in {1} |-> ItemNotification]
          /\ monday \in Optional(Items)

Next ==
    \/ \E i \in Invocations : Handle(i)
    \/ \E i \in Invocations : MetaResponse(i)
    \/ \E i \in Invocations : DownloadResponse(i)
    \/ \E i \in Invocations : InitResponse(i)
    \/ \E i \in Invocations : DepositResponse(i)
    \/ \E i \in Invocations : R2PutResponse(i)
    \/ \E i \in Invocations : FieldPutResponse(i)
    \/ \E i \in Invocations : NoteResponse(i)
    \/ AddAsset

Spec == Init /\ [][Next]_vars

\* Two notifications about the same item, handled concurrently.
InitRace ==
    /\ Fresh({1, 2})
    /\ request = [i \in {1, 2} |-> ItemNotification]
    /\ monday = <<PlainItem>>

SpecRace == InitRace /\ [][Next]_vars

\* File names: a stem, a dot or none, and an extension or none.
Stems == {<<>>, <<"r">>, <<"a", " ", "b">>, <<"a", ".", "b">>, <<"q", "/", "r">>}

PdfSpellings ==
    {<<p, d, f>> : p \in {"p", "P"}, d \in {"d", "D"}, f \in {"f", "F"}}

Extensions ==
    PdfSpellings
        \cup {<<>>, <<"c", "s", "v">>, <<"C", "s", "V">>, <<"z", "z", "z">>,
              <<"p", "d", "f", "x">>,
              <<"c", "o", "n", "s", "t", "r", "u", "c", "t", "o", "r">>}

Filenames ==
    {stem \o dot \o ext : stem \in Stems, dot \in {<<>>, <<".">>}, ext \in Extensions}

\* An item with a lead id and one file of the given name.
ItemWithFile(filename) ==
    [name |-> "Acme Ltd",
     column_values |-> <<[text |-> JText(<<"L", "1">>), display_value |-> TextUndefined]>>,
     assets |-> <<[id |-> "f", name |-> filename,
                   public_url |-> JStr("https://files.monday/f"), created_at |-> 1]>>]

\* One invocation for an item whose file has any of the file names, the
\* notification naming the item by either identifier.
InitFiles ==
    /\ Fresh({1})
    /\ request \in [{1} -> {ItemNotification,
                            Post([EmptyBody EXCEPT !.pulseId = JStr("456")])}]
    /\ \E filename \in Filenames : monday = <<ItemWithFile(filename)>>

SpecFiles == InitFiles /\ [][Next]_vars

(***************************************************************************)
(* Properties.                                                             *)
(***************************************************************************)
\* The request of invocation i is a POST whose body decoded to an object
\* the model still holds.
Decoded(i) == request[i].method = "POST" /\ request[i].parse = "object"

\* Invocation i takes its first step, from the request to its first await
\* or its response.
Starts(i) == pc[i] = "start" /\ pc'[i] # "start"

Status(i) == response[i][1].status

\* The calls of invocation i that concern one asset.
AssetCalls(i) ==
    CallsOfKind(calls[i], {"download", "init", "deposit", "r2put", "fieldput", "note"})

\* Invocation i got as far as the asset loop: the metadata query returned
\* an item with a linked record id and at least one asset.
IteratesAssets(i) ==
    /\ itemData[i] # <<>>
    /\ itemData[i][1].closeLeadId.t = "string"
    /\ itemData[i][1].closeLeadId.v # <<>>
    /\ Len(itemData[i][1].assets) >= 1

\* The falsy values a decoded body can hold.
FalsyValues == {JNull, JFalse, JStr(""), JNum("0")}

\* C1, as stated: a POST body with a challenge field of any value X is
\* answered 200 with JSON {challenge: X}, and no outbound call is issued.
C1_AnyChallengeEchoed ==
    \A i \in Invocations :
        (pc[i] = "done" /\ Decoded(i) /\ request[i].body.challenge # Undefined)
            => /\ Status(i) = 200
               /\ response[i][1].contentType = "application/json"
               /\ response[i][1].challenge = request[i].body.challenge
               /\ calls[i] = <<>>

\* C1, amended: a POST body with a challenge field of a truthy value X
\* (not null, false, 0 or the empty string) is answered 200 with JSON
\* {challenge: X} whatever else the body holds, and no outbound call is
\* issued.
C1_TruthyChallengeEchoed ==
    [][\A i \in Invocations :
         (Starts(i) /\ Decoded(i)
            /\ request[i].body.challenge \notin FalsyValues \cup {Undefined})
            => /\ pc'[i] = "done"
               /\ response'[i][1].status = 200
               /\ response'[i][1].contentType = "application/json"
               /\ response'[i][1].challenge = request[i].body.challenge
               /\ calls'[i] = <<>>]_vars

\* A challenge was echoed for a body that is also an event about another
\* column and carries an item id.
C1_Witness ==
    \E i \in Invocations :
        /\ pc[i] = "done" /\ Decoded(i)
        /\ request[i].body.challenge = JStr("tok-1")
        /\ request[i].body.event # <<>>
        /\ request[i].body.event[1].columnId = JStr("status")
        /\ request[i].body.itemId = JNum("123")
        /\ response[i][1].challenge = JStr("tok-1")
        /\ calls[i] = <<>>

\* C2: when the CRM upload succeeded and the bucket put failed, no lead
\* field PUT is issued for the asset, and a note POST is issued whose
\* attachment URL is the download URL the initialize call returned.
C2_MirrorFailureSkipsFieldOnly ==
    \A i \in Invocations :
        \A k \in CallsOfKind(calls[i], {"r2put"}) :
            calls[i][k].result = "throw"
                => /\ \E d \in CallsOfKind(calls[i], {"deposit"}) :
                        d < k /\ calls[i][d].result \in {"201", "204"}
                   /\ \A f \in CallsOfKind(calls[i], {"fieldput"}) :
                        calls[i][f].asset # calls[i][k].asset
                   /\ \E n \in CallsOfKind(calls[i], {"note"}) :
                        /\ n > k
                        /\ calls[i][n].asset = calls[i][k].asset
                        /\ calls[i][n].attachment.url # <<>>
                        /\ calls[i][n].attachment.url = initData[i][1].downloadUrl

\* The bucket put failed and the note was created all the same.
C2_Witness ==
    \E i \in Invocations :
        /\ pc[i] = "done"
        /\ \E k \in CallsOfKind(calls[i], {"r2put"}) : calls[i][k].result = "throw"
        /\ closeNotes # <<>>
        /\ closeNotes[1].attachment.url = initData[i][1].downloadUrl
        /\ closePuts = <<>>

\* C3, as stated: once the asset loop is entered, no failure of a step,
\* status or exception, aborts the invocation: it answers 200, never 500.
C3_AssetFailuresNeverAbort ==
    \A i \in Invocations :
        (pc[i] = "done" /\ IteratesAssets(i)) => Status(i) = 200

\* The greatest creation timestamp among the assets of an item.
NewestCreatedAt(item) ==
    CHOOSE t \in {item.assets[k].created_at : k \in DOMAIN item.assets} :
        \A k \in DOMAIN item.assets : item.assets[k].created_at <= t

\* C4: whatever the order of the assets in the metadata response, the
\* calls of an invocation concern at most one asset, each kind of call is
\* issued at most once, and the asset is one with the greatest creation
\* timestamp of the response.
C4_OnlyNewestAssetProcessed ==
    \A i \in Invocations :
        /\ \A j, k \in AssetCalls(i) :
              /\ calls[i][j].asset = calls[i][k].asset
              /\ (j # k => calls[i][j].kind # calls[i][k].kind)
        /\ \A k \in AssetCalls(i) :
              /\ data[i] # <<>>
              /\ \E a \in DOMAIN data[i][1].assets :
                    /\ data[i][1].assets[a].id = calls[i][k].asset
                    /\ data[i][1].assets[a].created_at = NewestCreatedAt(data[i][1])

\* Of three assets the newest came last in the response, and it is the one
\* that was synced.
C4_Witness ==
    \E i \in Invocations :
        /\ pc[i] = "done"
        /\ data[i] # <<>>
        /\ Len(data[i][1].assets) = 3
        /\ data[i][1].assets[1].created_at < data[i][1].assets[3].created_at
        /\ closeNotes # <<>>
        /\ closeNotes[1].attachment.filename = data[i][1].assets[3].name
        /\ \E k \in AssetCalls(i) : calls[i][k].kind = "download"

\* The event of the body names a column, and it is not the NAFA file column.
NamesOtherColumn(body) ==
    /\ body.event # <<>>
    /\ body.event[1].columnId.t = "string"
    /\ body.event[1].columnId.v \notin {"", NAFA_FILE_COLUMN_ID}

\* C5: an event-form POST body whose event names a column id other than
\* the configured file column is answered 200, and no outbound call is
\* issued, whatever item id and value the event carries.
C5_OtherColumnIgnored ==
    [][\A i \in Invocations :
         (Starts(i) /\ Decoded(i) /\ NamesOtherColumn(request[i].body))
            => /\ pc'[i] = "done"
               /\ response'[i][1].status = 200
               /\ calls'[i] = <<>>]_vars

\* An event about another column with an item id and a file value was
\* ignored.
C5_Witness ==
    \E i \in Invocations :
        /\ pc[i] = "done" /\ Decoded(i)
        /\ request[i].body.challenge = Undefined
        /\ NamesOtherColumn(request[i].body)
        /\ request[i].body.event[1].pulseId = JNum("123")
        /\ request[i].body.event[1].value = JStr("{\"files\":[{\"assetId\":7}]}")
        /\ Status(i) = 200
        /\ response[i][1].text = "Ignoring non-NAFA column change"
        /\ calls[i] = <<>>

\* The event of the body carries one of the two empty file values.
CarriesEmptyValue(body) ==
    /\ body.event # <<>>
    /\ body.event[1].value \in {JStr("{}"), JStr("{\"files\":[]}")}

\* C6: an event-form POST body whose event value is {} or {"files":[]} is
\* answered 200, and no outbound call is issued, also when the event
\* carries an item id and the file column's id.
C6_EmptyValueIgnored ==
    [][\A i \in Invocations :
         (Starts(i) /\ Decoded(i) /\ CarriesEmptyValue(request[i].body))
            => /\ pc'[i] = "done"
               /\ response'[i][1].status = 200
               /\ calls'[i] = <<>>]_vars

\* An event about the file column with an item id and the empty files list
\* was skipped.
C6_Witness ==
    \E i \in Invocations :
        /\ pc[i] = "done" /\ Decoded(i)
        /\ request[i].body.challenge = Undefined
        /\ request[i].body.event # <<>>
        /\ request[i].body.event[1].value = JStr("{\"files\":[]}")
        /\ request[i].body.event[1].columnId = JStr(NAFA_FILE_COLUMN_ID)
        /\ request[i].body.event[1].pulseId = JNum("123")
        /\ Status(i) = 200
        /\ response[i][1].text = "File was removed, skipping"
        /\ calls[i] = <<>>

\* The metadata query of invocation i settled reporting errors, or
\* returned no item.
MetadataFailed(i) ==
    /\ calls[i] # <<>>
    /\ \/ calls[i][1].result = "errors"
       \/ calls[i][1].result = "ok" /\ data[i] = <<>>

\* C7: when the metadata query reports errors or returns no item, the
\* invocation ends with status 500 and issues no call after the query.
C7_MetadataFailureAborts ==
    \A i \in Invocations :
        MetadataFailed(i)
            => /\ pc[i] = "done"
               /\ Status(i) = 500
               /\ Len(calls[i]) = 1
               /\ calls[i][1].kind = "metadata"

\* The query returned no item and the invocation ended with 500.
C7_Witness ==
    \E i \in Invocations :
        /\ pc[i] = "done"
        /\ calls[i] # <<>>
        /\ calls[i][1].result = "ok"
        /\ data[i] = <<>>
        /\ monday = <<>>
        /\ Status(i) = 500

\* getMondayItemData returned null to invocation i.
ItemDataNull(i) ==
    /\ calls[i] # <<>>
    /\ calls[i][1].result \in {"ok", "errors"}
    /\ itemData[i] = <<>>

\* C8, as stated: when the metadata fetcher returns null the invocation
\* stops and the endpoint answers with a success (2xx) status.
C8_NullItemDataAnswered2xx ==
    \A i \in Invocations :
        (pc[i] = "done" /\ ItemDataNull(i)) => Status(i) \in 200..299

\* C8, amended: when the metadata fetcher returns null the invocation
\* stops and the endpoint answers 500 "Failed to fetch item data", an
\* error status and not a success one.
C8_NullItemDataAnswered500 ==
    \A i \in Invocations :
        ItemDataNull(i)
            => /\ pc[i] = "done"
               /\ response[i] # <<>>
               /\ Status(i) = 500
               /\ Status(i) \notin 200..299
               /\ response[i][1].text = "Failed to fetch item data"

\* The query reported errors and the invocation answered 500.
C8_Witness ==
    \E i \in Invocations :
        /\ pc[i] = "done"
        /\ calls[i] # <<>>
        /\ calls[i][1].result = "errors"
        /\ itemData[i] = <<>>
        /\ Status(i) = 500

\* A column value that holds no identifier: absent, empty or blanks only.
Blank(x) == x.t # "string" \/ \A k \in DOMAIN x.v : x.v[k] = " "

\* The item has no linked record id.
NoLinkedRecord(item) ==
    \/ item.column_values = <<>>
    \/ Blank(item.column_values[1].text) /\ Blank(item.column_values[1].display_value)

\* C9: the remaining ignorable conditions end the invocation with 200 and
\* nothing more.  When no item id is extracted no call is issued (and a
\* call is only ever issued with an item id); when the item has no linked
\* record id (absent, empty or blanks only) or no assets, the metadata
\* query is the only call.
C9_IgnorableConditionsEnd200 ==
    \A i \in Invocations :
        /\ (pc[i] = "done" /\ Decoded(i)
              /\ request[i].body.challenge = Undefined
              /\ ExtractItemId(request[i].body).exit = "none"
              /\ ExtractItemId(request[i].body).itemId \in FalsyValues \cup {Undefined})
              => Status(i) = 200 /\ calls[i] = <<>>
        /\ calls[i] # <<>> => itemId[i] \notin FalsyValues \cup {Undefined}
        /\ (data[i] # <<>> /\ (NoLinkedRecord(data[i][1]) \/ data[i][1].assets = <<>>))
              => /\ pc[i] = "done"
                 /\ Status(i) = 200
                 /\ Len(calls[i]) = 1
                 /\ calls[i][1].kind = "metadata"
                 /\ closeFiles = <<>> /\ closeNotes = <<>> /\ r2Bucket = {}

\* The item has a file but its lead column holds blanks only, and the
\* invocation ended with 200 after the metadata query.
C9_Witness ==
    \E i \in Invocations :
        /\ pc[i] = "done"
        /\ data[i] # <<>>
        /\ data[i][1].column_values # <<>>
        /\ data[i][1].column_values[1].text = JText(<<" ">>)
        /\ data[i][1].column_values[1].display_value = TextUndefined
        /\ data[i][1].assets # <<>>
        /\ Status(i) = 200
        /\ Len(calls[i]) = 1

\* The lead field PUTs executed on a lead, in the order the CRM executed
\* them.
PutsOn(lead) == SelectSeq(closePuts, LAMBDA p : p.lead = lead)

\* The invocations whose note POST created a note.
NoteCreators ==
    {i \in Invocations : \E k \in CallsOfKind(calls[i], {"note"}) : calls[i][k].result = "ok"}

\* C10: two invocations for the same item are neither deduplicated nor
\* serialized: every invocation whose note POST succeeded has its own note
\* on the record, and the custom field of a lead holds the URL computed by
\* the invocation whose PUT was executed last.
C10_LastWriteWins ==
    /\ \A lead \in Leads :
          LET puts == PutsOn(lead) IN
          IF puts = <<>> THEN closeField[lead] = <<>>
          ELSE /\ closeField[lead] = puts[Len(puts)].value
               /\ closeField[lead] = r2PublicUrl[puts[Len(puts)].by]
    /\ Len(closeNotes) = Cardinality(NoteCreators)
    /\ \A i \in NoteCreators : \E n \in DOMAIN closeNotes : closeNotes[n].by = i

\* Both invocations have ended, each created a note on the same lead, the
\* two wrote different URLs, and the field holds the one written last.
C10_Witness ==
    /\ Invocations = {1, 2}
    /\ \A i \in Invocations : pc[i] = "done"
    /\ Len(closeNotes) = 2
    /\ closeNotes[1].lead_id = closeNotes[2].lead_id
    /\ closeNotes[1].by # closeNotes[2].by
    /\ Len(closePuts) = 2
    /\ closePuts[1].value # closePuts[2].value
    /\ closePuts[1].lead = closePuts[2].lead
    /\ closeField[closePuts[2].lead] = closePuts[2].value

\* The invocations whose lead field PUT was executed.
FieldWriters(lead) ==
    {i \in Invocations :
        \E k \in CallsOfKind(calls[i], {"fieldput"}) :
            calls[i][k].result = "ok" /\ calls[i][k].lead = lead}

\* The notes on a lead.
NotesOn(lead) == SelectSeq(closeNotes, LAMBDA n : n.lead_id = lead)

\* The invocations whose note POST created a note on the lead for the file.
NotePosters(lead, filename) ==
    {i \in Invocations :
        \E k \in CallsOfKind(calls[i], {"note"}) :
            /\ calls[i][k].result = "ok"
            /\ calls[i][k].lead_id = lead
            /\ calls[i][k].attachment.filename = filename}

\* The field update and the note creation were each performed twice for
\* the lead, the file and the mirror URL.
PerformedTwice(lead, filename, url) ==
    /\ \A i \in Invocations : pc[i] = "done"
    /\ Cardinality(FieldWriters(lead)) = 2
    /\ \A i \in FieldWriters(lead) : r2PublicUrl[i] = url
    /\ Cardinality(NotePosters(lead, filename)) = 2

\* C11, as stated: both operations are idempotent: performed twice for
\* the same record, file and mirror URL they leave the record as performed
\* once, the field holding the URL and the record holding one note.
C11_BothIdempotent ==
    \A lead \in Leads, a \in Range(AssetPool) :
        PerformedTwice(lead, a.name, R2PublicUrl(JNum("123"), a.name))
            => /\ closeField[lead] = R2PublicUrl(JNum("123"), a.name)
               /\ Len(NotesOn(lead)) = 1

\* C11, amended: the field update is idempotent and the note creation is
\* not.  When every PUT executed on a lead carried the same mirror URL the
\* field holds that URL, however many were executed; every successful note
\* POST adds a note of its own, so that the record holds as many notes as
\* POSTs succeeded.
C11_FieldIdempotentNotesAccumulate ==
    \A lead \in Leads :
        /\ \A i \in FieldWriters(lead) :
              (\A j \in FieldWriters(lead) : r2PublicUrl[j] = r2PublicUrl[i])
                  => closeField[lead] = r2PublicUrl[i]
        /\ \A a \in Range(AssetPool) :
              Cardinality(NotePosters(lead, a.name))
                  = Len(SelectSeq(NotesOn(lead),
                                  LAMBDA n : n.attachment.filename = a.name))

\* The notification was replayed: two field updates with one URL left the
\* field holding it, and two note creations left two notes for one file.
C11_Witness ==
    \E lead \in Leads, a \in Range(AssetPool) :
        /\ PerformedTwice(lead, a.name, R2PublicUrl(JNum("123"), a.name))
        /\ closeField[lead] = R2PublicUrl(JNum("123"), a.name)
        /\ Len(NotesOn(lead)) = 2
        /\ NotesOn(lead)[1].attachment.filename = NotesOn(lead)[2].attachment.filename

\* The calls whose rejection no step catches.
UncaughtKinds == {"metadata", "init", "deposit", "note"}

\* C12: a POST whose body is not JSON, and any exception no step handles,
\* end the invocation with status 500 and a non-empty body; the handler
\* itself returns a response whenever it ends.
C12_UnhandledExceptionsAnswered500 ==
    \A i \in Invocations :
        /\ (pc[i] # "start" /\ request[i].method = "POST"
              /\ request[i].parse \in {"malformed", "null"})
              => /\ pc[i] = "done"
                 /\ response[i] # <<>>
                 /\ Status(i) = 500
                 /\ response[i][1].text # ""
                 /\ calls[i] = <<>>
        /\ \A k \in CallsOfKind(calls[i], UncaughtKinds) :
              calls[i][k].result = "throw"
                  => /\ k = Len(calls[i])
                     /\ pc[i] = "done"
                     /\ response[i] # <<>>
                     /\ Status(i) = 500
                     /\ response[i][1].text # ""
        /\ pc[i] = "done" <=> response[i] # <<>>

\* The note POST was rejected after every earlier step had succeeded, and
\* the invocation was answered 500 with a body.
C12_Witness ==
    \E i \in Invocations :
        /\ pc[i] = "done"
        /\ Len(calls[i]) = 7
        /\ calls[i][7].kind = "note"
        /\ calls[i][7].result = "throw"
        /\ Status(i) = 500
        /\ response[i][1].text = "Internal error"

\* The position of the last dot of a file name, 0 if it has none.
LastDot(q) ==
    IF \E k \in DOMAIN q : q[k] = "."
    THEN CHOOSE k \in DOMAIN q : q[k] = "." /\ \A j \in DOMAIN q : j > k => q[j] # "."
    ELSE 0

\* The extension of a file name that has one.
Extension(q) == SubSeq(q, LastDot(q) + 1, Len(q))

\* C13, as stated: getMimeType maps a file name whose extension is pdf in
\* any letter case to application/pdf, and a file name with no extension
\* (no dot) or an extension outside the table to application/octet-stream,
\* also when the whole of an extension-less name is a key of the table.
C13_MimeTypeByExtension ==
    \A i \in Invocations :
        \A k \in CallsOfKind(calls[i], {"init"}) :
            LET filename == calls[i][k].filename IN
            /\ (LastDot(filename) # 0 /\ Extension(filename) \in PdfSpellings)
                  => calls[i][k].content_type = "application/pdf"
            /\ (LastDot(filename) = 0
                  \/ ToLowerCase(Extension(filename)) \notin DOMAIN mimeTypes)
                  => calls[i][k].content_type = "application/octet-stream"

\* %20 and %2F decoded, every other character kept.
RECURSIVE PercentDecode(_)
PercentDecode(q) ==
    IF q = <<>> THEN <<>>
    ELSE IF Len(q) >= 3 /\ SubSeq(q, 1, 3) = <<"%", "2", "0">>
         THEN <<" ">> \o PercentDecode(SubSeq(q, 4, Len(q)))
    ELSE IF Len(q) >= 3 /\ SubSeq(q, 1, 3) = <<"%", "2", "F">>
         THEN <<"/">> \o PercentDecode(SubSeq(q, 4, Len(q)))
    ELSE <<Head(q)>> \o PercentDecode(Tail(q))

\* The url is base/id/name with name the percent-encoding of the file name:
\* free of spaces and slashes, and decoding to the file name.
IsPublicUrlOf(url, id, filename) ==
    /\ Len(url) >= 4
    /\ SubSeq(url, 1, 4) = <<R2_PUBLIC_URL, "/", id, "/">>
    /\ LET name == SubSeq(url, 5, Len(url)) IN
       /\ \A k \in DOMAIN name : name[k] \notin {" ", "/"}
       /\ PercentDecode(name) = filename

\* C14: for every item id and file name the object is put under the key
\* <itemId>/<filename>, the file name as it is, and the public URL is
\* <base>/<itemId>/<percent-encoded filename>; the URL is returned (and
\* sent to the custom field) only if the put did not throw, and null is
\* returned otherwise.
C14_KeyPlainUrlEncoded ==
    \A i \in Invocations :
        \A k \in CallsOfKind(calls[i], {"r2put"}) :
            LET put == calls[i][k]
                filename == itemData[i][1].assets[1].name
            IN
            /\ put.key = <<itemId[i].v, "/">> \o filename
            /\ put.result = "ok"
                  => /\ \E o \in r2Bucket : o.key = <<itemId[i].v, "/">> \o filename
                     /\ IsPublicUrlOf(r2PublicUrl[i], itemId[i].v, filename)
                     /\ Len(calls[i]) > k
                     /\ calls[i][k + 1].kind = "fieldput"
                     /\ calls[i][k + 1].value = r2PublicUrl[i]
            /\ put.result = "throw"
                  => /\ r2PublicUrl[i] = <<>>
                     /\ CallsOfKind(calls[i], {"fieldput"}) = {}

\* The file "a b.pdf" of item 123 was stored under 123/a b.pdf and the field
\* was sent .../123/a%20b.pdf.
C14_Witness ==
    \E i \in Invocations :
        /\ pc[i] = "done"
        /\ \E o \in r2Bucket : o.key = <<"123", "/", "a", " ", "b", ".", "p", "d", "f">>
        /\ r2PublicUrl[i] = <<R2_PUBLIC_URL, "/", "123", "/",
                              "a", "%", "2", "0", "b", ".", "p", "d", "f">>
        /\ closeField[<<"L", "1">>] = r2PublicUrl[i]

\* The place of a kind of call in the sequence of one invocation.
Rank(kind) ==
    CASE kind = "metadata" -> 1 [] kind = "download" -> 2 [] kind = "init" -> 3
      [] kind = "deposit" -> 4 [] kind = "r2put" -> 5 [] kind = "fieldput" -> 6
      [] kind = "note" -> 7

\* The initialize call of invocation i was answered with a success status
\* and all three pieces, and its deposit with 201 or 204.
CrmUploadSucceeded(i) ==
    /\ \E k \in CallsOfKind(calls[i], {"init"}) : calls[i][k].result = "ok"
    /\ initData[i] # <<>>
    /\ initData[i][1].uploadUrl
    /\ initData[i][1].uploadFields
    /\ initData[i][1].downloadUrl # <<>>
    /\ \E k \in CallsOfKind(calls[i], {"deposit"}) : calls[i][k].result \in {"201", "204"}

\* C15: within one invocation the calls are issued in the order metadata
\* query, download, initialize, deposit, mirror put, field PUT, note POST,
\* each only after the one before it has completed; after a failed download,
\* initialize or deposit no further call is issued for the asset, and a
\* mirror put, field PUT or note POST is issued only after an initialize
\* answered with success and a deposit answered with 201 or 204.
C15_CallsInOrder ==
    \A i \in Invocations :
        LET cs == calls[i] IN
        /\ \A j, k \in DOMAIN cs : j < k => Rank(cs[j].kind) < Rank(cs[k].kind)
        /\ \A k \in DOMAIN cs : k < Len(cs) => cs[k].result # "pending"
        /\ \A k \in DOMAIN cs :
              /\ k > 1 => cs[1].kind = "metadata" /\ cs[1].result = "ok"
              /\ (cs[k].kind \in {"download", "init"} /\ cs[k].result \notin {"ok", "pending"})
                    => k = Len(cs)
              /\ (cs[k].kind = "deposit" /\ cs[k].result \notin {"201", "204", "pending"})
                    => k = Len(cs)
              /\ cs[k].kind \in {"r2put", "fieldput", "note"}
                    => \E j, d \in 1..(k - 1) :
                          /\ j < d
                          /\ cs[j].kind = "init" /\ cs[j].result = "ok"
                          /\ cs[d].kind = "deposit" /\ cs[d].result \in {"201", "204"}

\* An invocation has ended after all seven calls.
C15_Witness ==
    \E i \in Invocations :
        /\ pc[i] = "done"
        /\ [k \in DOMAIN calls[i] |-> calls[i][k].kind]
              = <<"metadata", "download", "init", "deposit", "r2put", "fieldput", "note">>

C17_UploadSucceedsIffInitCompleteAndDeposited ==
    \A i \in Invocations :
        /\ closeFileUrl[i] # <<>>
              <=> /\ \E k \in CallsOfKind(calls[i], {"init"}) : calls[i][k].result = "ok"
                  /\ initData[i] # <<>>
                  /\ initData[i][1].uploadUrl
                  /\ initData[i][1].uploadFields
                  /\ initData[i][1].downloadUrl # <<>>
                  /\ \E k \in CallsOfKind(calls[i], {"deposit"}) :
                        calls[i][k].result \in {"201", "204"}
        /\ closeFileUrl[i] # <<>> => closeFileUrl[i] = initData[i][1].downloadUrl
        /\ \A k \in CallsOfKind(calls[i], {"deposit"}) :
              /\ calls[i][k].result \in {"200", "403", "throw"} => closeFileUrl[i] = <<>>
              /\ k > 1
              /\ calls[i][k - 1].kind = "init"
              /\ calls[i][k - 1].result = "ok"
              /\ initData[i][1].uploadUrl
              /\ initData[i][1].uploadFields
              /\ initData[i][1].downloadUrl # <<>>

\* The deposit was answered 200: the backend holds the file, and the upload
\* counts as failed.
C17_Witness ==
    \E i \in Invocations :
        /\ pc[i] = "done"
        /\ closeFileUrl[i] = <<>>
        /\ \E k \in CallsOfKind(calls[i], {"deposit"}) :
              /\ calls[i][k].result = "200"
              /\ closeFiles[calls[i][k].file].deposited

\* C18: there are no retries; in one invocation each kind of call (metadata
\* query, download, initialize, deposit, mirror put, field PUT, note POST)
\* is issued at most once, also after that call or an earlier one failed.
C18_EachKindAtMostOnce ==
    \A i \in Invocations :
        \A kind \in {"metadata", "download", "init", "deposit", "r2put", "fieldput", "note"} :
            Cardinality(CallsOfKind(calls[i], {kind})) <= 1

\* An invocation has ended after its field PUT and its note POST failed:
\* neither was issued again.
C18_Witness ==
    \E i \in Invocations :
        /\ pc[i] = "done"
        /\ Status(i) = 200
        /\ Len(calls[i]) = 7
        /\ calls[i][6].kind = "fieldput"
        /\ calls[i][6].result \in {"status", "throw"}
        /\ calls[i][7].kind = "note"
        /\ calls[i][7].result = "status"

\* The body has the payload form: no challenge, no event, a payload object.
PayloadForm(body) ==
    body.challenge = Undefined /\ body.event = <<>> /\ body.payload # <<>>

\* A mapping of the payload, when there, holds an item identifier.
HoldsId(mapping) ==
    mapping # <<>> /\ (Truthy(mapping[1].itemId) \/ Truthy(mapping[1].pulseId))

\* C19, as stated: for a body of the payload form the handler finds an item
\* identifier whenever the input-field mapping, the inbound-field mapping or
\* the payload's own itemId holds one, also when the input-field mapping is
\* there without an identifier and the inbound-field mapping holds one; it
\* answers "no item id" only when none of the three holds one.
C19_PayloadIdFoundWhereverPresent ==
    \A i \in Invocations :
        (/\ pc[i] = "done"
         /\ Decoded(i)
         /\ PayloadForm(request[i].body)
         /\ LET payload == request[i].body.payload[1] IN
            \/ HoldsId(payload.inputFields)
            \/ HoldsId(payload.inboundFieldValues)
            \/ Truthy(payload.itemId))
            => response[i][1].text # "No item ID found in payload"

\* The seven kinds of call the worker makes; none deletes or reverts.
CallKinds == {"metadata", "download", "init", "deposit", "r2put", "fieldput", "note"}

\* What invocation i has written is still there: the CRM file of each
\* deposit the backend accepted, the mirror object of each put, and the
\* custom-field value of each field PUT.
EffectsRemain(i) ==
    \A k \in DOMAIN calls[i] :
        LET c == calls[i][k] IN
        /\ (c.kind = "deposit" /\ c.result \in {"200", "201", "204"})
              => c.file \in DOMAIN closeFiles /\ closeFiles[c.file].deposited
        /\ (c.kind = "r2put" /\ c.result = "ok")
              => \E o \in r2Bucket : o.key = c.key /\ o.contentType = c.contentType
        /\ (c.kind = "fieldput" /\ c.result = "ok")
              => closeField[c.lead] = c.value

\* C20: no step is rolled back; when a later step of an asset fails after
\* earlier ones succeeded, the invocation makes no compensating call, and
\* the CRM file, the mirror object and the custom-field value written
\* earlier are unchanged at the end of the invocation.
C20_NoRollback ==
    \A i \in Invocations :
        /\ \A k \in DOMAIN calls[i] : calls[i][k].kind \in CallKinds
        /\ EffectsRemain(i)

\* The note POST failed after the CRM upload, the mirror put and the field
\* update had succeeded, and the invocation has ended.
C20_Witness ==
    \E i \in Invocations :
        /\ pc[i] = "done"
        /\ Len(calls[i]) = 7
        /\ calls[i][4].result \in {"201", "204"}
        /\ calls[i][5].result = "ok"
        /\ calls[i][6].result = "ok"
        /\ calls[i][7].kind = "note"
        /\ calls[i][7].result \in {"status", "throw"}
        /\ r2Bucket # {}
        /\ closeField[calls[i][6].lead] = calls[i][6].value

====
